---------------------------- MODULE Spec2Model ----------------------------
(***************************************************************************)
(* A model of niviz/config.py: SpecConfig (environment substitution,       *)
(* merging of global defaults into each file-spec) and FileSpec (globbing, *)
(* entity extraction, hierarchical grouping).                              *)
(*                                                                         *)
(* Strings are sequences of one-character strings.  Python values carry a  *)
(* type tag: [t |-> "str", v |-> <<chars>>], [t |-> "dict", v |-> f], ...  *)
(* Dicts are functions over their keys; an absent key is a key outside the *)
(* DOMAIN.  The outcome of a call is [kind |-> "ok", value |-> ...] or     *)
(* [kind |-> <exception class>, value |-> ...].                            *)
(***************************************************************************)
EXTENDS Integers, Sequences, FiniteSets, TLC

VARIABLES
    environ,     \* os.environ: variable name -> value
    config,      \* the document yaml.load returned
    files,       \* the paths that exist on the filesystem
    pc,          \* "new" | "ready" (constructed) | "failed" (__init__ raised)
    defaults,    \* SpecConfig.defaults
    file_specs,  \* SpecConfig.file_specs (the stored dicts, mutated in place)
    fspec,       \* FileSpec.spec of the FileSpec built by the last call
    globbed,     \* the patterns the last call handed to glob, in order
    applied,     \* what _apply_envs returned or raised in the last call
    returned,    \* outcomes of the successive get_file_args calls
    se_in,       \* argument of a direct _substitute_env call
    se_out,      \* its outcome
    gb_in,       \* arguments of a direct _group_by_hierarchy call
    gb_out       \* its outcome

vars == <<environ, config, files, pc, defaults, file_specs, fspec, globbed,
          applied, returned, se_in, se_out, gb_in, gb_out>>

pipeVars == <<config, files, pc, defaults, file_specs, fspec, globbed,
              applied, returned>>
seVars == <<se_in, se_out>>
gbVars == <<gb_in, gb_out>>

-----------------------------------------------------------------------------
(* Bounds *)

MaxLen == 4      \* longest string handed directly to _substitute_env
MaxItems == 3    \* longest item list handed directly to _group_by_hierarchy
MaxCalls == 2    \* get_file_args calls on one SpecConfig
MaxArgs == 2     \* most argument declarations in one file-spec

-----------------------------------------------------------------------------
(* Python values *)

Str(s) == [t |-> "str", v |-> s]
Bool(b) == [t |-> "bool", v |-> IF b THEN <<"True">> ELSE <<"False">>]
Num(digits) == [t |-> "int", v |-> digits]
None == [t |-> "none", v |-> <<"None">>]
List(s) == [t |-> "list", v |-> s]
Dict(f) == [t |-> "dict", v |-> f]
EmptyDict == Dict(<<>>)

Ok(x) == [kind |-> "ok", value |-> x]
Raise(e, x) == [kind |-> e, value |-> x]
Idle == [kind |-> "idle", value |-> <<>>]

Letters == {"A", "B", "s", "r", "t"}
Digits == {"1", "2"}
IsAlnum(c) == c \in Letters \cup Digits
IsWord(c) == IsAlnum(c) \/ c = "_"
IsIdStart(c) == c \in Letters \/ c = "_"

\* The first p in lo..Len(s) satisfying P, or 0.
FirstIndex(s, lo, P(_)) ==
    LET hits == {p \in lo..Len(s) : P(p)}
    IN IF hits = {} THEN 0 ELSE CHOOSE p \in hits : \A q \in hits : p <= q

\* The last index of the longest run of characters satisfying P that
\* starts at p (p - 1 when s[p] does not satisfy it).
RunEnd(s, p, P(_)) ==
    LET stop == FirstIndex(s, p, LAMBDA q : ~P(s[q]))
    IN IF stop = 0 THEN Len(s) ELSE stop - 1

Slice(s, a, b) == IF a > b THEN <<>> ELSE SubSeq(s, a, b)

\* Body applied to v: names a value that is used more than once.
Bind(v, Body(_)) == Body(v)

-----------------------------------------------------------------------------
(* Environment Resolver: os.path.expandvars, re.findall, Template *)

\* Where the pattern \$(\w+|\{[^}]*\}) matches at p: the index of the
\* match's last character, or 0 when it does not match at p.
VarMatchEnd(path, p) ==
    IF path[p] # "$" \/ p = Len(path) THEN 0
    ELSE IF IsWord(path[p + 1]) THEN RunEnd(path, p + 1, IsWord)
    ELSE IF path[p + 1] = "{"
         THEN FirstIndex(path, p + 2, LAMBDA q : path[q] = "}")
    ELSE 0

\* os.path.expandvars from search position i on (posixpath): a value that
\* was substituted is not scanned again, an unknown name is left as it is.
RECURSIVE ExpandFrom(_, _, _)
ExpandFrom(path, i, env) ==
    LET p == FirstIndex(path, i, LAMBDA q : VarMatchEnd(path, q) # 0)
    IN IF p = 0 THEN path
       ELSE LET j == VarMatchEnd(path, p)
                name == IF path[p + 1] = "{" THEN Slice(path, p + 2, j - 1)
                        ELSE Slice(path, p + 1, j)
            IN IF name \in DOMAIN env
               THEN ExpandFrom(Slice(path, 1, p - 1) \o env[name]
                                   \o Slice(path, j + 1, Len(path)),
                               p + Len(env[name]), env)
               ELSE ExpandFrom(path, j + 1, env)

expandvars(path, env) == ExpandFrom(path, 1, env)

\* re.findall("\\$[A-Za-z0-9]+", r): the non-overlapping matches, in order.
RECURSIVE FindallFrom(_, _)
FindallFrom(r, i) ==
    LET p == FirstIndex(r, i, LAMBDA q : r[q] = "$" /\ q < Len(r)
                                          /\ IsAlnum(r[q + 1]))
    IN IF p = 0 THEN <<>>
       ELSE LET j == RunEnd(r, p + 1, IsAlnum)
            IN <<Slice(r, p, j)>> \o FindallFrom(r, j + 1)

findall_unresolved(r) == FindallFrom(r, 1)

\* SpecConfig._substitute_env against the process environment env; a
\* ValidationError carries the names logged before it was raised.
_substitute_env_in(s, env) ==
    LET r == expandvars(s, env)
        unresolved == findall_unresolved(r)
    IN IF unresolved # <<>> THEN Raise("ValidationError", unresolved)
       ELSE Ok(r)

_substitute_env(s) == _substitute_env_in(s, environ)

\* string.Template(s).substitute(mapping): $$ is an escaped delimiter,
\* $name and ${name} are looked up (KeyError when missing), any other use
\* of the delimiter is a ValueError; the first offending match raises.
RECURSIVE TemplateFrom(_, _, _, _)
TemplateFrom(s, i, acc, mapping) ==
    LET p == FirstIndex(s, i, LAMBDA q : s[q] = "$")
        head == acc \o Slice(s, i, p - 1)
    IN IF p = 0 THEN Ok(acc \o Slice(s, i, Len(s)))
       ELSE IF p < Len(s) /\ s[p + 1] = "$"
            THEN TemplateFrom(s, p + 2, head \o <<"$">>, mapping)
       ELSE IF p < Len(s) /\ IsIdStart(s[p + 1])
            THEN LET j == RunEnd(s, p + 1, IsWord)
                     name == Slice(s, p + 1, j)
                 IN IF name \in DOMAIN mapping
                    THEN TemplateFrom(s, j + 1, head \o mapping[name], mapping)
                    ELSE Raise("KeyError", name)
       ELSE IF p + 1 < Len(s) /\ s[p + 1] = "{" /\ IsIdStart(s[p + 2])
               /\ RunEnd(s, p + 2, IsWord) < Len(s)
               /\ s[RunEnd(s, p + 2, IsWord) + 1] = "}"
            THEN LET j == RunEnd(s, p + 2, IsWord)
                     name == Slice(s, p + 2, j)
                 IN IF name \in DOMAIN mapping
                    THEN TemplateFrom(s, j + 2, head \o mapping[name], mapping)
                    ELSE Raise("KeyError", name)
       ELSE Raise("ValueError", Slice(s, p, Len(s)))

\* Template(value).substitute(mapping) for a tagged value: re's sub raises
\* TypeError for anything that is not a string.
Template_substitute(value, mapping) ==
    IF value.t # "str" THEN Raise("TypeError", value.v)
    ELSE TemplateFrom(value.v, 1, <<>>, mapping)

-----------------------------------------------------------------------------
(* Hierarchical Grouper: FileSpec._group_by_hierarchy *)

\* An item is [e |-> entity dict, f |-> [field |-> .., path |-> ..]].  An
\* insertion-ordered dict of groups is a sequence of [key |-> .., files |-> ..],
\* a defaultdict(list) of sub-groups a sequence of [val |-> .., items |-> ..].

\* The distinct values of s, in order of first appearance.
RECURSIVE Distinct(_)
Distinct(s) ==
    IF s = <<>> THEN <<>>
    ELSE LET init == Distinct(SubSeq(s, 1, Len(s) - 1))
             last == s[Len(s)]
         IN IF \E i \in 1..Len(init) : init[i] = last THEN init
            ELSE Append(init, last)

RECURSIVE Concat(_)
Concat(ss) == IF ss = <<>> THEN <<>> ELSE Head(ss) \o Concat(Tail(ss))

HasKey(res, k) == \E i \in 1..Len(res) : res[i].key = k
Lookup(res, k) == res[CHOOSE i \in 1..Len(res) : res[i].key = k]

\* dict.update(c) on an insertion-ordered dict.
dict_update(res, c) ==
    [i \in 1..Len(res) |->
        IF HasKey(c, res[i].key) THEN Lookup(c, res[i].key) ELSE res[i]]
    \o SelectSeq(c, LAMBDA g : ~HasKey(res, g.key))

\* A variant that files an item without a value for the entity under the
\* value None instead of putting it aside.
group_by_entity_none(entity_dict, entity) ==
    LET vals == Distinct([i \in 1..Len(entity_dict) |->
                            entity_dict[i].e[entity]])
    IN <<[k \in 1..Len(vals) |->
            [val |-> vals[k],
             items |-> SelectSeq(entity_dict,
                                 LAMBDA x : x.e[entity] = vals[k])]],
         <<>>>>

\* group_by_entity: <<entity_found, no_entity>>
group_by_entity(entity_dict, entity) ==
    LET no_entity == SelectSeq(entity_dict, LAMBDA it : it.e[entity] = None)
        found == SelectSeq(entity_dict, LAMBDA it : it.e[entity] # None)
        vals == Distinct([i \in 1..Len(found) |-> found[i].e[entity]])
    IN <<[i \in 1..Len(vals) |->
            [val |-> vals[i],
             items |-> SelectSeq(found, LAMBDA it : it.e[entity] = vals[i])]],
         no_entity>>

\* resolve_group: one group per full entity tuple, tuple(e.items()).
resolve_group(grouped_entities) ==
    LET flat == Concat([i \in 1..Len(grouped_entities) |->
                           grouped_entities[i].items])
        keys == Distinct([i \in 1..Len(flat) |-> flat[i].e])
    IN [i \in 1..Len(keys) |->
          [key |-> keys[i],
           files |-> LET own == SelectSeq(flat, LAMBDA it : it.e = keys[i])
                     IN [j \in 1..Len(own) |-> own[j].f]]]

\* A variant that puts the spread items before the files of each group.
apply_spread_first(res, spread) ==
    IF spread = <<>> THEN res
    ELSE [i \in 1..Len(res) |->
            [key |-> res[i].key,
             files |-> [j \in 1..Len(spread) |-> spread[j].f]
                       \o res[i].files]]

\* apply_spread: every spread item is appended to every group of res.
apply_spread(res, spread) ==
    IF spread = <<>> THEN res
    ELSE [i \in 1..Len(res) |->
            [key |-> res[i].key,
             files |-> res[i].files
                       \o [j \in 1..Len(spread) |-> spread[j].f]]]

\* traverse(h, entity_specs) for a non-empty h; the loop over
\* has_entity.values() is traverse_children, from child k on.
RECURSIVE traverse(_, _)
RECURSIVE traverse_children(_, _, _, _, _)
RECURSIVE traverse_children_respread(_, _, _, _, _)
traverse(h, entity_specs) ==
    LET entity == Head(h)
        rest == Tail(h)
        g == group_by_entity(entity_specs, entity)
        has_entity == g[1]
        to_spread == g[2]
    IN IF rest = <<>> THEN apply_spread(resolve_group(has_entity), to_spread)
       ELSE traverse_children(rest, has_entity, to_spread, 1, <<>>)

\* A variant that spreads into the accumulated result after each update.
traverse_children_respread(h, has_entity, to_spread, k, res) ==
    IF k > Len(has_entity) THEN res
    ELSE LET c_res == traverse(h, has_entity[k].items)
         IN traverse_children_respread(h, has_entity, to_spread, k + 1,
                apply_spread(dict_update(res, c_res), to_spread))

traverse_children(h, has_entity, to_spread, k, res) ==
    IF k > Len(has_entity) THEN res
    ELSE LET c_res == apply_spread(traverse(h, has_entity[k].items), to_spread)
         IN traverse_children(h, has_entity, to_spread, k + 1,
                              dict_update(res, c_res))

\* The active hierarchy: bids_hierarchy filtered to the available entities.
active_hierarchy(bids_hierarchy, available_entities) ==
    SelectSeq(bids_hierarchy, LAMBDA h : h \in available_entities)

\* _group_by_hierarchy(entities_specs, available_entities) of a FileSpec
\* whose spec['bids_hierarchy'] is the tagged value bids_hierarchy:
\* iterating None is a TypeError, h.pop(0) on an empty list an IndexError.
_group_by_hierarchy(bids_hierarchy, entities_specs, available_entities) ==
    IF bids_hierarchy.t # "list" THEN Raise("TypeError", <<>>)
    ELSE LET hierarchy == active_hierarchy(bids_hierarchy.v, available_entities)
         IN IF hierarchy = <<>> THEN Raise("IndexError", <<>>)
            ELSE Ok(traverse(hierarchy, entities_specs))

-----------------------------------------------------------------------------
(* Dicts, _nested_update *)

Put(f, k, x) == [j \in DOMAIN f \cup {k} |-> IF j = k THEN x ELSE f[j]]
Get(f, k, dflt) == IF k \in DOMAIN f THEN f[k] ELSE dflt
Restrict(f, S) == [k \in S |-> f[k]]

\* The order in which a document lists the keys of a mapping.
KeyOrder == <<"sub", "run", "regex", "value">>
keys_of(u) == SelectSeq(KeyOrder, LAMBDA k : k \in DOMAIN u.v)

\* _nested_update(d, u): [d |-> d as the call leaves it, err |-> "ok" or the
\* exception].  d is updated in place, key by key, so on an exception the
\* keys before the offending one stay updated.  d.get on a non-dict is an
\* AttributeError, d[k] = v on a non-dict a TypeError.
RECURSIVE _nested_update(_, _)
RECURSIVE nested_update_keys(_, _, _)
nested_update_keys(d, u, ks) ==
    IF ks = <<>> THEN [d |-> d, err |-> "ok"]
    ELSE LET k == Head(ks)
             v == u.v[k]
         IN IF v.t = "dict"
            THEN IF d.t # "dict" THEN [d |-> d, err |-> "AttributeError"]
                 ELSE LET sub == _nested_update(Get(d.v, k, EmptyDict), v)
                      IN IF sub.err # "ok"
                         THEN [d |-> IF k \in DOMAIN d.v
                                     THEN Dict(Put(d.v, k, sub.d)) ELSE d,
                               err |-> sub.err]
                         ELSE nested_update_keys(Dict(Put(d.v, k, sub.d)),
                                                 u, Tail(ks))
            ELSE IF d.t # "dict" THEN [d |-> d, err |-> "TypeError"]
                 ELSE nested_update_keys(Dict(Put(d.v, k, v)), u, Tail(ks))

_nested_update(d, u) == nested_update_keys(d, u, keys_of(u))

-----------------------------------------------------------------------------
(* Path Prefixer, glob, Entity Extractor *)

\* os.path.abspath(base_path)
BasePath == <<"/", "r">>

\* str.strip(c)
strip(s, c) ==
    LET keep == {i \in 1..Len(s) : s[i] # c}
    IN IF keep = {} THEN <<>>
       ELSE Slice(s, CHOOSE i \in keep : \A j \in keep : i <= j,
                     CHOOSE i \in keep : \A j \in keep : i >= j)

\* os.path.join(a, b) for a b that is not absolute
path_join(a, b) ==
    IF a = <<>> \/ a[Len(a)] = "/" THEN a \o b ELSE a \o <<"/">> \o b

_prefix_path(x, prefix) ==
    IF Len(x) >= 2 /\ x[1] = "." /\ x[2] = "/"
    THEN path_join(prefix, strip(strip(x, "."), "/"))
    ELSE x

\* fnmatch of a whole path against a pattern whose only magic is "*",
\* which matches any run of characters within one path component.
RECURSIVE glob_match(_, _)
glob_match(pat, path) ==
    IF pat = <<>> THEN path = <<>>
    ELSE IF Head(pat) = "*"
         THEN \/ glob_match(Tail(pat), path)
              \/ path # <<>> /\ Head(path) # "/" /\ glob_match(pat, Tail(path))
    ELSE path # <<>> /\ Head(path) = Head(pat)
         /\ glob_match(Tail(pat), Tail(path))

\* glob(pattern) on the filesystem listing fs (a sequence of paths)
glob(pattern, fs) ==
    IF pattern = <<>> THEN <<>>
    ELSE SelectSeq(fs, LAMBDA path : glob_match(pattern, path))

\* re.search(pattern, path)[0] for a pattern made of literal characters and
\* of "\\d" (one element standing for the escape, matching one digit): the
\* first match, or None.
re_search(pattern, path) ==
    LET n == Len(pattern)
        at(p) == \A i \in 1..n :
                    IF pattern[i] = "\\d" THEN path[p + i - 1] \in Digits
                    ELSE path[p + i - 1] = pattern[i]
        hits == {p \in 1..(Len(path) - n + 1) : at(p)}
    IN IF hits = {} THEN None
       ELSE LET p == CHOOSE q \in hits : \A q2 \in hits : q <= q2
            IN Str(Slice(path, p, p + n - 1))

\* bool(x) for a tagged value
Truthy(x) ==
    CASE x.t = "bool" -> x = Bool(TRUE)
      [] x.t = "none" -> FALSE
      [] x.t = "dict" -> DOMAIN x.v # {}
      [] OTHER -> x.v # <<>>

\* The entity value one rule v gives path: [kind |-> "ok", value |-> ..] or
\* the exception.  A search that raises TypeError (None[0], or a pattern
\* that is not a string) gives None.
extract_entity(v, path) ==
    IF v.t # "dict" THEN Raise("ValidationError", <<>>)
    ELSE IF "regex" \in DOMAIN v.v /\ Truthy(v.v["regex"])
         THEN IF "value" \notin DOMAIN v.v THEN Raise("KeyError", <<"value">>)
              ELSE IF v.v["value"].t # "str" THEN Ok(None)
              ELSE Ok(re_search(v.v["value"].v, path))
    ELSE IF "value" \notin DOMAIN v.v THEN Raise("KeyError", <<"value">>)
    ELSE Ok(v.v["value"])

\* FileSpec._extract_bids_entities(path): the first rule, in key order, that
\* raises decides the exception.
_extract_bids_entities(bids_map, path) ==
    LET ks == keys_of(bids_map)
        bad == {i \in 1..Len(ks) : extract_entity(bids_map.v[ks[i]], path).kind # "ok"}
    IN IF bad # {}
       THEN extract_entity(bids_map.v[ks[CHOOSE i \in bad : \A j \in bad : i <= j]],
                           path)
       ELSE Ok([k \in DOMAIN bids_map.v |->
                   extract_entity(bids_map.v[k], path).value])

-----------------------------------------------------------------------------
(* FileSpec Resolver: iter_args, gen_args *)

\* iter_args: (field, value, no_bids, defaulting to False) of every argument
iter_args(args) ==
    [i \in 1..Len(args) |->
        <<args[i].field, args[i].value,
          IF "no_bids" \in DOMAIN args[i] THEN args[i].no_bids ELSE Bool(FALSE)>>]

\* The pattern gen_args hands to glob for an argument value: a string is
\* prefixed, anything else is formatted by f"{v}".
glob_pattern(v) == IF v.t = "str" THEN _prefix_path(v.v, BasePath) ELSE v.v

\* The field -> path dict of a group: the last file of a field wins.
bids_argmap(filespecs) ==
    [fld \in {filespecs[i].field : i \in 1..Len(filespecs)} |->
        LET is == {i \in 1..Len(filespecs) : filespecs[i].field = fld}
        IN filespecs[CHOOSE i \in is : \A j \in is : i >= j].path]

ArgInputSpec(spec, group) ==
    [name |-> spec.name,
     interface_args |-> bids_argmap(group.files),
     bids_entities |-> group.key,
     out_spec |-> spec.out_path,
     method |-> spec.method]

\* FileSpec(spec).gen_args(base_path) on the filesystem listing fs:
\* [out |-> Ok(list of ArgInputSpec) or the exception,
\*  globbed |-> the patterns handed to glob before it returned or raised].
\* The no_bids element of iter_args' triple is unpacked and never read.
\* gen_args_hits: every matched path with the argument it came from and what
\* _extract_bids_entities gives it, in the order of the two loops.
gen_args_hits(spec, triples, pats, fs) ==
    Concat([i \in 1..Len(triples) |->
              Bind(glob(pats[i], fs), LAMBDA ps :
                 [j \in 1..Len(ps) |->
                     [arg |-> i,
                      f |-> [field |-> triples[i][1], path |-> ps[j]],
                      ent |-> _extract_bids_entities(spec.bids_map, ps[j])]])])

\* gen_args from the call of _group_by_hierarchy on
gen_args_group(spec, pats, bids_results) ==
    Bind(_group_by_hierarchy(spec.bids_hierarchy, bids_results,
                             DOMAIN spec.bids_map.v),
         LAMBDA matched :
            [out |-> IF matched.kind # "ok" THEN matched
                     ELSE Ok([i \in 1..Len(matched.value) |->
                                ArgInputSpec(spec, matched.value[i])]),
             globbed |-> pats])

gen_args_loop(spec, pats, hits) ==
    Bind(FirstIndex(hits, 1, LAMBDA i : hits[i].ent.kind # "ok"), LAMBDA k :
       IF k # 0
       THEN [out |-> hits[k].ent, globbed |-> SubSeq(pats, 1, hits[k].arg)]
       ELSE gen_args_group(spec, pats,
                [i \in 1..Len(hits) |->
                    [e |-> hits[i].ent.value, f |-> hits[i].f]]))

gen_args(spec, fs) ==
    Bind(iter_args(spec.args), LAMBDA triples :
       Bind([i \in 1..Len(triples) |-> glob_pattern(triples[i][2])],
            LAMBDA pats :
               gen_args_loop(spec, pats,
                             gen_args_hits(spec, triples, pats, fs))))

-----------------------------------------------------------------------------
(* SpecConfig: _apply_envs, _get_file_arg, get_file_args, __init__ *)

\* The loop of _apply_envs from argument k on: [args |-> the argument dicts
\* as the call leaves them, out |-> Ok(arg_list) or the exception].  The
\* dicts are those of the stored file-spec: f['value'] = ... changes them.
RECURSIVE apply_envs_from(_, _, _)
RECURSIVE apply_envs_swallow(_, _, _)
\* A variant that passes over every TypeError, not only a boolean's.
apply_envs_swallow(args, k, env) ==
    IF k > Len(args) THEN [args |-> args, out |-> Ok(args)]
    ELSE Bind(Template_substitute(args[k].value, env), LAMBDA r :
            IF r.kind = "ok"
            THEN apply_envs_swallow([args EXCEPT ![k].value = Str(r.value)],
                                    k + 1, env)
            ELSE IF r.kind = "TypeError"
                 THEN apply_envs_swallow(args, k + 1, env)
            ELSE [args |-> args, out |-> r])

apply_envs_from(args, k, env) ==
    IF k > Len(args) THEN [args |-> args, out |-> Ok(args)]
    ELSE Bind(Template_substitute(args[k].value, env), LAMBDA r :
            IF r.kind = "ok"
            THEN apply_envs_from([args EXCEPT ![k].value = Str(r.value)],
                                 k + 1, env)
            ELSE IF r.kind = "TypeError" /\ args[k].value.t = "bool"
                 THEN apply_envs_from(args, k + 1, env)
            ELSE [args |-> args, out |-> r])

\* SpecConfig._apply_envs(args) of a SpecConfig whose defaults are dflt
_apply_envs(args, dflt) ==
    IF "env" \notin DOMAIN dflt THEN [args |-> args, out |-> Ok(args)]
    ELSE apply_envs_from(args, 1, dflt.env)

\* The bids_hierarchy _get_file_arg leaves in _spec.  The key is always in
\* _spec by then (set, or deep-copied from spec), so the statement under
\* "if 'bids_hierarchy' not in _spec" is never run.
select_hierarchy(spec, dflt) ==
    IF ~Truthy(Get(spec, "bids_hierarchy", None))
    THEN Get(dflt, "bids_hierarchy", None)
    ELSE spec.bids_hierarchy

\* _spec after the two branches on spec.get('bids_hierarchy'): the second
\* one writes the key 'bids_hierachy'.
with_hierarchy(spec, dflt) ==
    IF ~Truthy(Get(spec, "bids_hierarchy", None))
    THEN Put(spec, "bids_hierarchy", select_hierarchy(spec, dflt))
    ELSE Put(Put(spec, "bids_hierarchy", select_hierarchy(spec, dflt)),
             "bids_hierachy", spec.bids_hierarchy)

\* What _get_file_arg gives when it raises before FileSpec is built.
get_file_arg_raised(stored, out, applied_) ==
    [spec |-> stored, out |-> out, fspec |-> <<>>, applied |-> applied_,
     globbed |-> <<>>]

\* _get_file_arg from FileSpec(_spec).gen_args(base_path) on
get_file_arg_resolve(stored, _spec, a, fs) ==
    Bind(gen_args(_spec, fs), LAMBDA g :
       [spec |-> stored, out |-> g.out, fspec |-> <<_spec>>,
        applied |-> <<a.out>>, globbed |-> g.globbed])

\* _get_file_arg from _apply_envs(spec['args']) on; spec1 is the stored
\* file-spec after the merge, m what the merge gave
get_file_arg_envs(spec, spec1, m, dflt, fs) ==
    Bind(_apply_envs(spec1.args, dflt), LAMBDA a :
       IF a.out.kind # "ok"
       THEN get_file_arg_raised([spec1 EXCEPT !.args = a.args], a.out, <<a.out>>)
       ELSE get_file_arg_resolve(
               [spec1 EXCEPT !.args = a.args],
               [with_hierarchy(spec, dflt) EXCEPT !.bids_map = m.d,
                                                  !.args = a.out.value],
               a, fs))

\* SpecConfig._get_file_arg(spec, base_path):
\* [spec |-> the stored file-spec as the call leaves it, out |-> the outcome,
\*  fspec |-> << the _spec handed to FileSpec >> or << >>,
\*  applied |-> << what _apply_envs returned or raised >> or << >>,
\*  globbed |-> the patterns handed to glob]
\* _spec is a deep copy of spec taken before anything is changed; the merge
\* and _apply_envs change the stored spec itself.
_get_file_arg(spec, dflt, fs) ==
    IF "bids_map" \notin DOMAIN spec
    THEN get_file_arg_raised(spec, Raise("KeyError", <<"bids_map">>), <<>>)
    ELSE Bind(_nested_update(spec.bids_map, Get(dflt, "bids_map", EmptyDict)),
              LAMBDA m :
                 IF m.err # "ok"
                 THEN get_file_arg_raised([spec EXCEPT !.bids_map = m.d],
                                          Raise(m.err, <<"bids_map">>), <<>>)
                 ELSE get_file_arg_envs(spec, [spec EXCEPT !.bids_map = m.d],
                                        m, dflt, fs))

\* SpecConfig.get_file_args(base_path) from file-spec k on, acc holding what
\* the file-specs before k gave: the first exception ends the call.
RECURSIVE get_file_args_from(_, _, _, _, _)
get_file_args_from(specs, k, dflt, fs, acc) ==
    IF k > Len(specs) THEN [acc EXCEPT !.specs = specs, !.out = Ok(acc.lists)]
    ELSE Bind(_get_file_arg(specs[k], dflt, fs), LAMBDA r :
            IF r.out.kind # "ok"
            THEN [acc EXCEPT !.specs = [specs EXCEPT ![k] = r.spec],
                             !.out = r.out,
                             !.fspec = @ \o r.fspec,
                             !.applied = @ \o r.applied,
                             !.globbed = @ \o r.globbed]
            ELSE get_file_args_from([specs EXCEPT ![k] = r.spec], k + 1, dflt, fs,
                     [acc EXCEPT !.lists = Append(@, r.out.value),
                                 !.fspec = @ \o r.fspec,
                                 !.applied = @ \o r.applied,
                                 !.globbed = @ \o r.globbed]))

get_file_args(specs, dflt, fs) ==
    get_file_args_from(specs, 1, dflt, fs,
        [specs |-> specs, out |-> Idle, lists |-> <<>>, fspec |-> <<>>,
         applied |-> <<>>, globbed |-> <<>>])

-----------------------------------------------------------------------------
(* Actions *)

\* SpecConfig.__init__: defaults and file_specs are taken from the document
\* (a missing filespecs list is a ValidationError) and every value of
\* global.env goes through _substitute_env.
Construct ==
    /\ pc = "new"
    /\ \E dflt \in {Get(config, "global", <<>>)} :
          IF "filespecs" \notin DOMAIN config
          THEN pc' = "failed" /\ UNCHANGED <<defaults, file_specs>>
          ELSE IF "env" \notin DOMAIN dflt
          THEN /\ pc' = "ready"
               /\ defaults' = dflt
               /\ file_specs' = config.filespecs
          ELSE \E env \in {[k \in DOMAIN dflt.env |->
                              _substitute_env(dflt.env[k])]} :
                  IF \E k \in DOMAIN env : env[k].kind # "ok"
                  THEN /\ pc' = "failed"
                       /\ file_specs' = config.filespecs
                       /\ UNCHANGED defaults
                  ELSE /\ pc' = "ready"
                       /\ defaults' = [dflt EXCEPT !.env =
                                          [k \in DOMAIN env |-> env[k].value]]
                       /\ file_specs' = config.filespecs
    /\ UNCHANGED <<environ, config, files, fspec, globbed, applied, returned,
                   seVars, gbVars>>

\* One call of SpecConfig.get_file_args(base_path).
GetFileArgs ==
    /\ pc = "ready"
    /\ Len(returned) < MaxCalls
    /\ \E r \in {get_file_args(file_specs, defaults, files)} :
          /\ file_specs' = r.specs
          /\ fspec' = r.fspec
          /\ applied' = r.applied
          /\ globbed' = r.globbed
          /\ returned' = Append(returned, r.out)
    /\ UNCHANGED <<environ, config, files, pc, defaults, seVars, gbVars>>

\* A direct call of SpecConfig._substitute_env(se_in).
CallSubstituteEnv ==
    /\ se_out = Idle
    /\ se_out' = _substitute_env(se_in)
    /\ UNCHANGED <<environ, pipeVars, se_in, gbVars>>

\* A direct call of FileSpec._group_by_hierarchy(entities_specs,
\* available_entities) on a FileSpec whose spec holds gb_in.bids_hierarchy.
CallGroupByHierarchy ==
    /\ gb_out = Idle
    /\ gb_out' = _group_by_hierarchy(gb_in.bids_hierarchy, gb_in.entities_specs,
                                     gb_in.available_entities)
    /\ UNCHANGED <<environ, pipeVars, seVars, gb_in>>

-----------------------------------------------------------------------------
(* Initial states *)

Environs == {<<>>, (<<"A">> :> <<"1">>)}

NoPipe ==
    /\ config = <<>> /\ files = <<>> /\ pc = "none" /\ defaults = <<>>
    /\ file_specs = <<>> /\ fspec = <<>> /\ globbed = <<>> /\ applied = <<>>
    /\ returned = <<>>
NoSubst == se_in = <<>> /\ se_out = [kind |-> "none", value |-> <<>>]
NoGroup == gb_in = <<>> /\ gb_out = [kind |-> "none", value |-> <<>>]

\* Strings over alphabet of length at most n
RECURSIVE StringsUpTo(_, _)
StringsUpTo(alphabet, n) ==
    IF n = 0 THEN {<<>>}
    ELSE LET shorter == StringsUpTo(alphabet, n - 1)
         IN shorter \cup {Append(x, c) : x \in shorter, c \in alphabet}

SubstAlphabet == {"$", "{", "}", "A", "_", "1"}

InitSubst ==
    /\ environ \in Environs
    /\ se_in \in StringsUpTo(SubstAlphabet, MaxLen)
    /\ se_out = Idle
    /\ NoPipe /\ NoGroup

SpecSubst == InitSubst /\ [][CallSubstituteEnv]_vars

\* A regex rule, a literal rule, a rule without value and a rule that is
\* no mapping.
RegexRule(pattern) == Dict([regex |-> Bool(TRUE), value |-> Str(pattern)])
LiteralRule(value) == Dict([value |-> Str(value)])
SubRule == RegexRule(<<"s", "\\d">>)
RunRule == RegexRule(<<"r", "\\d">>)

\* The dicts that hold key k with a value of V, or do not hold it.
Optional(k, V) == {<<>>} \cup {(k :> v) : v \in V}

\* The sequences over S of length 1..n
SeqsUpTo(S, n) == UNION {[1..m -> S] : m \in 1..n}

FileSpecDefinition(args, optional) ==
    optional @@ [name |-> <<"n">>, method |-> <<"m">>, out_path |-> <<"o">>,
                 args |-> args]

PipeStart ==
    /\ pc = "new" /\ defaults = <<>> /\ file_specs = <<>> /\ fspec = <<>>
    /\ globbed = <<>> /\ applied = <<>> /\ returned = <<>>
    /\ NoSubst /\ NoGroup

\* Configurations that vary global.env, the process environment and the
\* argument values, over a fixed entity map and filesystem.
EnvValues == {<<"1">>, <<"$", "$">>, <<"$", "{", "B", "}">>, <<"$", "A">>}
EnvMaps == UNION {[N -> EnvValues] : N \in SUBSET {<<"A">>, <<"B">>}}
EnvArgValues ==
    {Str(<<"s", "1">>), Str(<<"$", "A">>), Str(<<"$", "{", "A", "}">>),
     Str(<<"$", "{", "B", "}">>), Str(<<"$", "$">>), Str(<<"s", "$", "A">>),
     Bool(TRUE), Num(<<"5">>), None, List(<<"[]">>)}
EnvFiles == << <<"s", "1">>, <<"$">>, <<"1">>, <<"$", "$">> >>
ArgFields == <<"f", "g", "h">>

InitEnv ==
    /\ environ \in Environs
    /\ files = EnvFiles
    /\ \E g \in Optional("env", EnvMaps) :
       \E vs \in SeqsUpTo(EnvArgValues, MaxArgs) :
          config =
             [global |-> g,
              filespecs |->
                 <<FileSpecDefinition(
                      [i \in 1..Len(vs) |->
                          [field |-> ArgFields[i], value |-> vs[i]]],
                      [bids_map |-> Dict([sub |-> SubRule]),
                       bids_hierarchy |-> List(<<"sub">>)])>>]
    /\ PipeStart

\* Configurations that vary the two entity maps and the two hierarchies
\* (each present or not), the global section and the number of file-specs,
\* over a fixed argument list and filesystem.
TreeFiles ==
    << <<"/", "r", "/", "s", "1", "r", "1">>, <<"/", "r", "/", "s", "2", "r", "1">>,
       <<"/", "r", "/", "s", "1", "r", "2">>, <<"/", "r", "/", "t">>,
       <<"/", "r", "/", "s", "1", "t">> >>
GlobalMaps ==
    {EmptyDict, Dict([sub |-> SubRule]), Dict([run |-> RunRule]),
     Dict([sub |-> RegexRule(<<"r", "\\d">>)]),
     Dict([sub |-> Dict([value |-> Str(<<"r", "\\d">>)])]),
     Dict([sub |-> LiteralRule(<<"X">>)])}
SpecMaps ==
    {EmptyDict, Dict([sub |-> SubRule]), Dict([sub |-> SubRule, run |-> RunRule]),
     Dict([sub |-> Dict([regex |-> Bool(TRUE)])]),
     Dict([sub |-> LiteralRule(<<"Y">>)]), Dict([sub |-> Str(<<"Y">>)])}
GlobalHierarchies ==
    {None, List(<<>>), List(<<"sub">>), List(<<"run", "sub">>)}
SpecHierarchies == {List(<<>>), List(<<"sub">>), List(<<"sub", "run">>)}
AllFiles == <<[field |-> "f", value |-> Str(<<".", "/", "*">>)]>>
SecondSpecs ==
    {FileSpecDefinition(AllFiles, [bids_map |-> Dict([run |-> RunRule])]),
     FileSpecDefinition(AllFiles, <<>>)}

InitMerge ==
    /\ environ = <<>>
    /\ files = TreeFiles
    /\ \/ config = <<>>
       \/ \E gm \in Optional("bids_map", GlobalMaps) :
          \E gh \in Optional("bids_hierarchy", GlobalHierarchies) :
          \E sm \in Optional("bids_map", SpecMaps) :
          \E sh \in Optional("bids_hierarchy", SpecHierarchies) :
          \E more \in {<<>>} \cup {<<x>> : x \in SecondSpecs} :
          \E g \in Optional("global", {gm @@ gh}) :
             config = g @@ [filespecs |->
                              <<FileSpecDefinition(AllFiles, sm @@ sh)>> \o more]
    /\ PipeStart

\* Configurations that vary the argument declarations (pattern, field,
\* no_bids), the entity map, the hierarchy and the filesystem.
ArgPatterns ==
    {<<".", "/", "s", "*", "r", "*">>, <<".", "/", "t">>,
     <<".", "/", "s", "1", "t">>, <<".", "/", "*", "t">>}
ArgumentDeclarations ==
    {[field |-> fld, value |-> Str(pat)] @@ nb :
        fld \in {"f", "g"}, pat \in ArgPatterns,
        nb \in Optional("no_bids", {Bool(TRUE)})}
Listings ==
    {TreeFiles, SubSeq(TreeFiles, 1, 4),
     << TreeFiles[5], TreeFiles[2], TreeFiles[1] >>}
ResolveMaps ==
    {Dict([sub |-> SubRule]), Dict([sub |-> SubRule, run |-> RunRule]),
     Dict([sub |-> LiteralRule(<<"X">>), run |-> RunRule])}
ResolveHierarchies ==
    {List(<<"sub">>), List(<<"sub", "run">>), List(<<"run", "sub">>)}

Init ==
    /\ environ = <<>>
    /\ files \in Listings
    /\ \E args \in SeqsUpTo(ArgumentDeclarations, MaxArgs) :
       \E bm \in ResolveMaps : \E bh \in ResolveHierarchies :
          config = [global |-> <<>>,
                    filespecs |->
                       <<FileSpecDefinition(args, [bids_map |-> bm,
                                                   bids_hierarchy |-> bh])>>]
    /\ PipeStart

Next == Construct \/ GetFileArgs

Spec == Init /\ [][Next]_vars

SpecMerge == InitMerge /\ [][Next]_vars

SpecEnv == InitEnv /\ [][Next]_vars

\* Configurations for the records of gen_args: one or more arguments whose
\* patterns match several files each, so that items with and without a
\* value for each hierarchy entity meet under one field or under two.
RecordPatterns ==
    {<<".", "/", "s", "*", "r", "*">>, <<".", "/", "t">>,
     <<".", "/", "*", "t">>, <<".", "/", "*">>}
RecordDeclarations ==
    {[field |-> fld, value |-> Str(pat)] :
        fld \in {"f", "g"}, pat \in RecordPatterns}
    \cup {[field |-> "g", value |-> Str(<<".", "/", "*", "t">>),
           no_bids |-> Bool(TRUE)]}

InitRecords ==
    /\ environ = <<>>
    /\ files \in Listings
    /\ \E args \in SeqsUpTo(RecordDeclarations, MaxArgs) :
       \E bm \in ResolveMaps : \E bh \in ResolveHierarchies :
          config = [global |-> <<>>,
                    filespecs |->
                       <<FileSpecDefinition(args, [bids_map |-> bm,
                                                   bids_hierarchy |-> bh])>>]
    /\ PipeStart

SpecRecords == InitRecords /\ [][Next]_vars

\* Item lists for a direct call: entity dicts over sub and run, each value
\* a string or None; the i-th item's file is ItemPaths[i].
GroupEntities == {"sub", "run"}
EntityValues == {None, Str(<<"1">>), Str(<<"2">>)}
ItemPaths == <<"a", "b", "c", "d", "e">>
GroupHierarchies ==
    {None} \cup {List(h) : h \in {<<>>, <<"sub">>, <<"run">>, <<"sub", "run">>,
                                  <<"run", "sub">>, <<"ses", "sub">>,
                                  <<"ses">>}}

ItemLists(n) ==
    [1..n -> [e : [GroupEntities -> EntityValues], field : {"f", "g"}]]

InitGroup ==
    /\ environ = <<>>
    /\ \E n \in 0..MaxItems : \E l \in ItemLists(n) : \E h \in GroupHierarchies :
          gb_in = [bids_hierarchy |-> h,
                   entities_specs |->
                       [i \in 1..n |-> [e |-> l[i].e,
                                        f |-> [field |-> l[i].field,
                                               path |-> <<ItemPaths[i]>>]]],
                   available_entities |-> GroupEntities]
    /\ gb_out = Idle
    /\ NoPipe /\ NoSubst

SpecGroup == InitGroup /\ [][CallGroupByHierarchy]_vars

-----------------------------------------------------------------------------
(* Properties of _group_by_hierarchy, checked under SpecGroup *)

GroupCalled == gb_out.kind \notin {"idle", "none"}
GroupItems == gb_in.entities_specs
ActiveHierarchy ==
    active_hierarchy(gb_in.bids_hierarchy.v, gb_in.available_entities)

\* The first level of hierarchy h at which item it has no value, or 0.
SpreadLevel(it, h) == FirstIndex(h, 1, LAMBDA q : it.e[h[q]] = None)

Count(fs, f) == Cardinality({j \in 1..Len(fs) : fs[j] = f})

\* C1: any two distinct groups differ in the value of at least one entity
\* of the active hierarchy.
C1_GroupsDifferOnHierarchy ==
    gb_out.kind = "ok" =>
        \A i, j \in 1..Len(gb_out.value) :
            i # j => \E q \in 1..Len(ActiveHierarchy) :
                        gb_out.value[i].key[ActiveHierarchy[q]]
                            # gb_out.value[j].key[ActiveHierarchy[q]]

\* C6: with an empty active hierarchy the call returns, without error, a
\* mapping that holds every item in the group keyed by its own entity-set.
C6_EmptyHierarchyGroups ==
    (GroupCalled /\ gb_in.bids_hierarchy.t = "list" /\ ActiveHierarchy = <<>>)
        => /\ gb_out.kind = "ok"
           /\ \A i \in 1..Len(GroupItems) :
                 \E g \in 1..Len(gb_out.value) :
                    /\ gb_out.value[g].key = GroupItems[i].e
                    /\ Count(gb_out.value[g].files, GroupItems[i].f) = 1

\* C10: an item with no value for hierarchy entity e, and a value for every
\* earlier one, is exactly once in the file list of every group whose key
\* agrees with it on the earlier entities, whatever its later values, and in
\* no other group.
C10_SpreadExactlyOnce ==
    gb_out.kind = "ok" =>
        \A i \in 1..Len(GroupItems) :
            LET it == GroupItems[i]
                lvl == SpreadLevel(it, ActiveHierarchy)
            IN lvl # 0 =>
               \A g \in 1..Len(gb_out.value) :
                  Count(gb_out.value[g].files, it.f) =
                     IF \A q \in 1..(lvl - 1) :
                           gb_out.value[g].key[ActiveHierarchy[q]]
                               = it.e[ActiveHierarchy[q]]
                     THEN 1 ELSE 0

\* An item spread at the second level of a two-level hierarchy, with a group
\* of its branch that holds it once and a group of another branch that does
\* not hold it.
C10_Witness ==
    /\ gb_out.kind = "ok"
    /\ Len(ActiveHierarchy) = 2
    /\ \E i \in 1..Len(GroupItems) :
          /\ SpreadLevel(GroupItems[i], ActiveHierarchy) = 2
          /\ \E g, g2 \in 1..Len(gb_out.value) :
                /\ Count(gb_out.value[g].files, GroupItems[i].f) = 1
                /\ Count(gb_out.value[g2].files, GroupItems[i].f) = 0

-----------------------------------------------------------------------------
(* Properties of _substitute_env, checked under SpecSubst *)

\* s holds a placeholder: $NAME or ${NAME}, NAME made of letters, digits
\* and underscores.
HasPlaceholder(s) ==
    \E p \in 1..(Len(s) - 1) :
        /\ s[p] = "$"
        /\ \/ IsWord(s[p + 1])
           \/ /\ s[p + 1] = "{"
              /\ \E q \in (p + 3)..Len(s) :
                    /\ s[q] = "}"
                    /\ \A i \in (p + 2)..(q - 1) : IsWord(s[i])

\* C8: _substitute_env returns a string without placeholder or fails with
\* ValidationError; it never returns a string that still holds one.
C8_NoPlaceholderReturned ==
    /\ se_out.kind \in {"idle", "none", "ok", "ValidationError"}
    /\ se_out.kind = "ok" => ~HasPlaceholder(se_out.value)

-----------------------------------------------------------------------------
(* Properties of get_file_args *)

Called == Len(returned) >= 1
\* The argument declarations of file-spec i as the document gives them
DeclaredArgs(i) == config.filespecs[i].args
GlobalEnv == Get(defaults, "env", <<>>)

\* C2: while resolving succeeds, an argument declared no_bids whose value
\* matches one file (and whose field no other argument uses) puts that path
\* under its field in every record of its file-spec.
C2_NoBidsInEveryRecord ==
    (Called /\ returned[Len(returned)].kind = "ok") =>
        \A s \in 1..Len(fspec) : \A a \in 1..Len(fspec[s].args) :
            LET arg == fspec[s].args[a]
                ps == glob(glob_pattern(arg.value), files)
            IN ("no_bids" \in DOMAIN arg /\ arg.no_bids = Bool(TRUE)
                /\ Len(ps) = 1
                /\ \A b \in 1..Len(fspec[s].args) :
                      b # a => fspec[s].args[b].field # arg.field)
               => \A r \in 1..Len(returned[Len(returned)].value[s]) :
                     LET ia == returned[Len(returned)].value[s][r].interface_args
                     IN arg.field \in DOMAIN ia /\ ia[arg.field] = ps[1]

\* C3: two successive calls on one SpecConfig return the same.
C3_SecondCallSame ==
    Len(returned) >= 2 =>
        /\ returned[1].kind = returned[2].kind
        /\ returned[1].value = returned[2].value

\* The deep merge in which the file-spec's own value is kept for every key
\* that both maps define.
RECURSIVE SpecWins(_, _)
SpecWins(global, own) ==
    IF global.t # "dict" \/ own.t # "dict" THEN own
    ELSE Dict([k \in DOMAIN global.v \cup DOMAIN own.v |->
                  IF k \notin DOMAIN own.v THEN global.v[k]
                  ELSE IF k \notin DOMAIN global.v THEN own.v[k]
                  ELSE SpecWins(global.v[k], own.v[k])])

\* C4: the bids_map handed to FileSpec is the deep merge of the global map
\* with the file-spec's own map, the file-spec's value winning.
C4_SpecEntriesWin ==
    \A i \in 1..Len(fspec) :
        fspec[i].bids_map = SpecWins(Get(defaults, "bids_map", EmptyDict),
                                     config.filespecs[i].bids_map)

\* v is a string whose first offending placeholder names a variable that
\* env does not define.
UndefinedReference(v, env) ==
    v.t = "str" /\ Template_substitute(v, env).kind = "KeyError"
\* v is a boolean or a string that env resolves.
Resolvable(v, env) ==
    v.t = "bool" \/ (v.t = "str" /\ Template_substitute(v, env).kind = "ok")

\* C5: when an argument references a variable that global.env does not
\* define (or there is no global.env) and the other arguments resolve, the
\* first call fails with ValidationError.
C5_UndefinedVariableIsValidationError ==
    Called =>
        \A a \in 1..Len(DeclaredArgs(1)) :
            (/\ UndefinedReference(DeclaredArgs(1)[a].value, GlobalEnv)
             /\ \A b \in 1..Len(DeclaredArgs(1)) :
                   b # a => Resolvable(DeclaredArgs(1)[b].value, GlobalEnv))
            => returned[1].kind = "ValidationError"

\* The hierarchy the spec says is selected: the file-spec's own non-empty
\* list, else the global list, else the empty list.
ExpectedHierarchy(own, global) ==
    IF "bids_hierarchy" \in DOMAIN own /\ own.bids_hierarchy.t = "list"
       /\ own.bids_hierarchy.v # <<>>
    THEN own.bids_hierarchy
    ELSE IF "bids_hierarchy" \in DOMAIN global /\ global.bids_hierarchy.t = "list"
    THEN global.bids_hierarchy
    ELSE List(<<>>)

\* C7: the bids_hierarchy handed to FileSpec is a list: the file-spec's own
\* when non-empty, else the global default, else the empty list.
C7_HierarchyFallback ==
    \A i \in 1..Len(fspec) :
        /\ fspec[i].bids_hierarchy.t = "list"
        /\ fspec[i].bids_hierarchy
              = ExpectedHierarchy(config.filespecs[i], defaults)

\* After the first call: what _apply_envs was given, what it gave, and the
\* stored arguments as it left them.
FirstCall == Len(returned) = 1 /\ Len(applied) = 1
NonString(v) == v.t \notin {"str", "bool"}
\* The first argument that is neither a boolean nor a resolvable string, or 0
FirstOffending(args, env) ==
    FirstIndex(args, 1, LAMBDA a : ~Resolvable(args[a].value, env))

-----------------------------------------------------------------------------
(* Properties of gen_args' records, checked under SpecRecords *)

LastReturned == returned[Len(returned)]
\* The items gen_args of file-spec s hands to _group_by_hierarchy: every
\* matched path with its field and extracted entities, in match order.
MatchedItems(s) ==
    LET triples == iter_args(fspec[s].args)
        pats == [i \in 1..Len(triples) |-> glob_pattern(triples[i][2])]
        hits == gen_args_hits(fspec[s], triples, pats, files)
    IN [i \in 1..Len(hits) |-> [e |-> hits[i].ent.value, f |-> hits[i].f]]
RecordHierarchy(s) ==
    active_hierarchy(fspec[s].bids_hierarchy.v, DOMAIN fspec[s].bids_map.v)
\* Item it is in the output: some record has its path under its field.
InRecords(it, recs) ==
    \E r \in 1..Len(recs) :
        /\ it.f.field \in DOMAIN recs[r].interface_args
        /\ recs[r].interface_args[it.f.field] = it.f.path

\* The three parts of C11 for one file-spec: items are its matched items,
\* lv their spread levels, recs its records, h its active hierarchy.
KeysPresent(items, lv, recs, h) ==
    /\ \A r \in 1..Len(recs) : \A q \in 1..Len(h) :
          recs[r].bids_entities[h[q]] # None
    /\ \A i \in 1..Len(items) :
          (lv[i] # 0 /\ InRecords(items[i], recs))
             => \E j \in 1..Len(items) :
                   /\ lv[j] = 0
                   /\ \A q \in 1..(lv[i] - 1) :
                         items[j].e[h[q]] = items[i].e[h[q]]
    /\ (\A i \in 1..Len(items) : lv[i] # 0) => recs = <<>>

SpreadLevels(items, h) ==
    [i \in 1..Len(items) |-> SpreadLevel(items[i], h)]

\* C11: with a non-empty active hierarchy, every record's bids_entities has
\* a value for every hierarchy entity; an item without a value for some
\* hierarchy entity is in the output only if an item with values for all
\* hierarchy entities agrees with it on the entities before that one; and
\* with no item that has values for all of them the list is empty.
C11_RecordKeysPresent ==
    (Called /\ LastReturned.kind = "ok") =>
        \A s \in 1..Len(fspec) :
            \A h \in {RecordHierarchy(s)} : \A items \in {MatchedItems(s)} :
            \A lv \in {SpreadLevels(items, h)} :
                h # <<>> => KeysPresent(items, lv, LastReturned.value[s], h)

\* A two-level hierarchy and an item without a value for the second entity
\* that is in a record of the returned list.
C11_Witness ==
    /\ Called /\ LastReturned.kind = "ok"
    /\ Len(RecordHierarchy(1)) = 2
    /\ LastReturned.value[1] # <<>>
    /\ \E i \in 1..Len(MatchedItems(1)) :
          /\ SpreadLevel(MatchedItems(1)[i], RecordHierarchy(1)) = 2
          /\ InRecords(MatchedItems(1)[i], LastReturned.value[1])

\* An item of spread level l (0: a value for every hierarchy entity)
\* belongs to the group of key under hierarchy h: it has the key, or it is
\* spread and agrees with the key on every entity before level l.
Member(it, l, key, h) ==
    IF l = 0 THEN it.e = key
    ELSE \A q \in 1..(l - 1) : it.e[h[q]] = key[h[q]]
\* The files of the items whose index satisfies P, in match order
FilesWhere(items, P(_)) ==
    LET idx == SelectSeq([i \in 1..Len(items) |-> i], P)
    IN [k \in 1..Len(idx) |-> items[idx[k]].f]
\* The file list the ordering gives the group of key: the items with the
\* key in match order, then the spread items of the last hierarchy level,
\* ..., then those of the first, each level in match order.
OrderedFiles(items, lv, key, h) ==
    FilesWhere(items, LAMBDA i : items[i].e = key)
    \o Concat([k \in 1..Len(h) |->
          FilesWhere(items, LAMBDA i :
                        /\ lv[i] = Len(h) + 1 - k
                        /\ Member(items[i], lv[i], key, h))])

\* C12 for one file-spec: groups are what _group_by_hierarchy makes of
\* its matched items, recs the records returned for it.
OrderedCollapse(items, lv, groups, recs, h) ==
    /\ Len(groups) = Len(recs)
    /\ \A g \in 1..Len(groups) :
          /\ recs[g].bids_entities = groups[g].key
          /\ groups[g].files = OrderedFiles(items, lv, groups[g].key, h)
          /\ \A i \in 1..Len(items) :
                Member(items[i], lv[i], groups[g].key, h) =>
                   /\ items[i].f.field \in DOMAIN recs[g].interface_args
                   /\ \E w \in 1..Len(items) :
                         /\ Member(items[w], lv[w], groups[g].key, h)
                         /\ items[w].f.field = items[i].f.field
                         /\ items[w].f.path
                               = recs[g].interface_args[items[i].f.field]
                         /\ lv[i] # 0 => (lv[w] # 0 /\ lv[w] <= lv[i])

\* C12: the file list of every group is its key's items in match order and
\* then the spread items from the deepest level to the shallowest; and in
\* the record of the group, a field that several of its items carry holds
\* the path of a spread item if there is one, and of one spread at the
\* earliest level among them.
C12_SpreadItemsWinCollapse ==
    (Called /\ LastReturned.kind = "ok") =>
        \A s \in 1..Len(fspec) :
            \A h \in {RecordHierarchy(s)} : \A items \in {MatchedItems(s)} :
            \A lv \in {SpreadLevels(items, h)} :
            \A groups \in {_group_by_hierarchy(fspec[s].bids_hierarchy, items,
                                                DOMAIN fspec[s].bids_map.v).value} :
                OrderedCollapse(items, lv, groups, LastReturned.value[s], h)

\* A record of a two-level hierarchy whose group holds, under one field, an
\* item with the key, an item spread at the second level and an item spread
\* at the first: the field holds the path of the last.
C12_Witness ==
    /\ Called /\ LastReturned.kind = "ok"
    /\ Len(RecordHierarchy(1)) = 2
    /\ \E g \in 1..Len(LastReturned.value[1]) :
       \E a, b, c \in 1..Len(MatchedItems(1)) :
          LET items == MatchedItems(1)
              rec == LastReturned.value[1][g]
          IN /\ items[a].e = rec.bids_entities
             /\ SpreadLevel(items[b], RecordHierarchy(1)) = 2
             /\ Member(items[b], 2, rec.bids_entities, RecordHierarchy(1))
             /\ SpreadLevel(items[c], RecordHierarchy(1)) = 1
             /\ items[a].f.field = items[b].f.field
             /\ items[b].f.field = items[c].f.field
             /\ items[a].f.path # items[c].f.path
             /\ items[b].f.path # items[c].f.path
             /\ rec.interface_args[items[c].f.field] = items[c].f.path

=============================================================================
